---------------------------- MODULE Spec2Model ----------------------------
(***************************************************************************)
(* Client-side network resilience and optimistic cache coordination of     *)
(* persyste: the circuit breaker, the retry loop and the facade            *)
(* (services/api.ts) and the optimistic mutations of the tasks cache       *)
(* (hooks/queries/useTodos.ts).                                            *)
(***************************************************************************)
EXTENDS Integers, Sequences, FiniteSets, TLC

(***************************************************************************)
(* Bounds of the model.                                                    *)
(***************************************************************************)
\* Facade calls that may overlap.
MaxCalls == 2
\* Clock ticks the model lets pass.
MaxTicks == 2
\* Optimistic mutations the model lets start.
MaxMuts == 2
\* Clock ticks the model lets pass while it follows the cache.
MaxCacheTicks == 1
\* Distinct response bodies a read may resolve with.
MaxValues == 2
\* Calls of useAsyncOperation's execute the model lets start.
MaxExecs == 3
\* The retryAttempts option useAsyncOperation is used with.
retryAttempts == 1
\* Requests the model lets pass the request interceptor while it follows the
\* request metadata.
MaxRequests == 3

(***************************************************************************)
(* Program constants.                                                      *)
(***************************************************************************)
\* CircuitBreaker constructor defaults.
maxFailures == 5
resetTimeout == 60000
\* defaultRetryConfig.maxRetries and the override of register and login.
defaultMaxRetries == 3
authMaxRetries == 1

\* The clock advances in steps of half the reset timeout.
TickMs == resetTimeout \div 2
MaxTime == MaxTicks * TickMs

Calls == 1..MaxCalls
\* The sequential caller uses one slot.
SeqCalls == {1}

\* Facade operations: login (register has the same configuration), a default
\* operation through the axios instance, and healthCheck, which calls axios
\* directly and so bypasses the interceptors.
Kinds == {"login", "getTodos", "healthCheck"}

VARIABLES
  cb,          \* CircuitBreaker: [state, failureCount, lastFailureTime]
  now,         \* Date.now()
  kind,        \* kind[c]: the operation running (or last run) as call c
  phase,       \* phase[c]: "idle" | "flight" (transport pending) | "sleep" (backoff)
  attempt,     \* attempt[c]: retryRequest's loop variable
  transports,  \* transports[c]: transport invocations of the operation
  lastError,   \* lastError[c]: retryRequest's lastError
  outcome,     \* outcome[c]: "none" | "ok" | "error" | "rejected", as the caller saw it
  raised,      \* raised[c]: the error thrown to the caller, NoError when none was
  adm,         \* adm[c]: how execute admitted the call: "closed" | "probe" | "halfopen"
  failStreak,  \* failed operations since the last succeeded one
  lastOpFail,  \* time of the last failed operation
  server,      \* the tasks the server holds, newest first
  nextId,      \* the id the server gives the next created task
  cache,       \* cache[q]: the query cache entry of tasks query q: [has, data]
  effects,     \* effects[q]: the mutations whose speculative update cache[q] carries
  fetch,       \* fetch[q]: "idle" | "fetching", the cache's fetch of query q
  pending,     \* pending[q]: RequestDeduplicator.pendingRequests for getTodos of q:
               \* [st, resp, old], old when the entry of q was updated speculatively
               \* after the request was dispatched
  staleWritten,\* a response dispatched before a speculative update was written after it
  mkind,       \* mkind[m]: "create" | "update" | "toggle" | "delete"
  marg,        \* marg[m]: the id the mutation is about
  mphase,      \* mphase[m]: "new" | "pending" | "done"
  ctx,         \* ctx[m]: what onMutate returned: [tempId, prev]
  moutcome,    \* moutcome[m]: "none" | "ok" | "error", as mutateAsync's caller saw it
  pendingRequests, \* RequestDeduplicator.pendingRequests: cache key -> the call that
               \* started the pending request, 0 when the key is absent
  query,       \* query[c]: the TodoQuery call c was made with
  joined,      \* joined[c]: the call whose pending promise call c was handed, 0 when none
  jres,        \* jres[c]: how the promise call c was handed settled: [res, err, val]
  val,         \* val[c]: the response body the request of call c resolved with
  authToken,   \* localStorage holds "authToken"
  authorization, \* authorization[c]: the last dispatch of call c carried the token
  redirected,  \* redirected[c]: window.location.href was set to "/login" during call c
  mcall,       \* the call that dispatches the pending mutation, 0 when none does
  before,      \* before[q]: the entry of q when the last mutation started
  quiet,       \* no read has run since the last mutation started
  late,        \* the entries the last success wrote that its snapshot did not cover
  state,       \* useAsyncOperation: the AsyncState [data, loading, error]
  abortControllerRef, \* the execution whose controller the ref holds, 0 when null
  aborted,     \* aborted[e]: signal.aborted of execution e
  ephase,      \* ephase[e]: "new" | "waiting" (asyncFunction pending) | "delay" | "done"
  eattempt,    \* eattempt[e]: the loop variable attempt of execution e
  callbacks,   \* callbacks[e]: "none" | "onSuccess" | "onError", what execution e invoked
  eresult,     \* eresult[e]: "none" | "value" | "undefined" | "raised", how execute settled
  errors,      \* errors[c]: what the attempts of the operation of call c rejected with
  streak,      \* the failed operations since the last succeeded one: <<kind, status>>
  requestCounter,  \* ApiService.requestCounter
  requestMetadata, \* ApiService.requestMetadata: the entries [key, requestId, startTime]
  metadataKey, \* metadataKey[c]: __metadataKey on the config of the request of call c
  issued,      \* issued[c]: the RequestMetadata made for the request of call c
  duration,    \* duration[c]: the duration the response interceptor last logged for call c
  renewed      \* renewed[c]: a sign-in stored a token after the last dispatch of call c

breakerVars == <<cb>>
callVars == <<kind, phase, attempt, transports, lastError, outcome, raised, adm>>
ghostVars == <<failStreak, lastOpFail>>
cacheVars == <<server, nextId, cache, effects, fetch, pending, staleWritten,
               mkind, marg, mphase, ctx, moutcome>>
dedupVars == <<pendingRequests, query, joined, jres, val>>
\* What the facade and the cache leave alone.
authVars == <<authToken, authorization, redirected, mcall>>
\* What the facade and the cache leave alone.
soloVars == <<before, quiet, late>>
\* What the facade and the cache leave alone.
asyncVars == <<state, abortControllerRef, aborted, ephase, eattempt,
               callbacks, eresult>>
histVars == <<errors, streak>>
metaVars == <<requestCounter, requestMetadata, metadataKey, issued, duration>>
tokenVars == <<renewed>>
\* What the facade and the cache leave alone.
layerVars == <<dedupVars, authVars, soloVars, asyncVars, histVars, metaVars, tokenVars>>
\* What the deduplicated facade leaves alone.
aboveDedup == <<authVars, soloVars, asyncVars, histVars, metaVars, tokenVars>>
\* What the authorised facade leaves alone.
aboveAuth == <<dedupVars, soloVars, asyncVars, histVars, metaVars, tokenVars>>
\* What the cache leaves alone when its mutations run one at a time.
aboveSolo == <<dedupVars, authVars, asyncVars, histVars, metaVars, tokenVars>>
\* What useAsyncOperation leaves alone.
besideAsync == <<cb, now, callVars, ghostVars, cacheVars, dedupVars, authVars, soloVars,
                 histVars, metaVars, tokenVars>>
\* What the facade leaves alone while its attempts are recorded.
aboveHist == <<dedupVars, authVars, soloVars, asyncVars, metaVars, tokenVars>>
\* What the facade leaves alone while its request metadata is followed.
aboveMeta == <<dedupVars, authVars, soloVars, asyncVars, histVars, tokenVars>>
\* What the authorised facade leaves alone while its sign-ins are recorded.
aboveToken == <<dedupVars, soloVars, asyncVars, histVars, metaVars>>
vars == <<cb, now, kind, phase, attempt, transports, lastError, outcome, raised, adm,
          failStreak, lastOpFail, server, nextId, cache, effects, fetch, pending,
          staleWritten, mkind, marg, mphase, ctx, moutcome,
          pendingRequests, query, joined, jres, val,
          authToken, authorization, redirected, mcall, before, quiet, late,
          state, abortControllerRef, aborted, ephase, eattempt, callbacks, eresult,
          errors, streak, requestCounter, requestMetadata, metadataKey, issued,
          duration, renewed>>

(***************************************************************************)
(* Errors.  A failure is [cls, code, status]; status 0 means no response.  *)
(***************************************************************************)
NoError == [cls |-> "none", code |-> "", status |-> 0]

\* What the transport (axios) raises.
AxiosErrors ==
  { [cls |-> "AxiosError", code |-> "ECONNABORTED", status |-> 0],
    [cls |-> "AxiosError", code |-> "ERR_NETWORK", status |-> 0],
    [cls |-> "AxiosError", code |-> "ERR_BAD_REQUEST", status |-> 400],
    [cls |-> "AxiosError", code |-> "ERR_BAD_RESPONSE", status |-> 500] }

\* The breaker's rejection: a plain Error.
CircuitOpenError == [cls |-> "Error", code |-> "CIRCUIT_OPEN", status |-> 0]

transformError(error) ==
  IF error.code \in {"ECONNABORTED", "ETIMEDOUT"}
    THEN [cls |-> "TimeoutError", code |-> "", status |-> 0]
  ELSE IF error.status = 0
    THEN [cls |-> "NetworkError", code |-> "", status |-> 0]
  ELSE [cls |-> "ApiError", code |-> "", status |-> error.status]

\* The response interceptor of the axios instance rejects with
\* transformError(error); healthCheck's direct axios.get has no interceptor.
ViaInstance(k) == k # "healthCheck"

Intercepted(k, error) == IF ViaInstance(k) THEN transformError(error) ELSE error

(***************************************************************************)
(* Retry policy.                                                           *)
(***************************************************************************)
retryCondition(error) ==
  error.status = 0 \/ (error.status >= 500 /\ error.status < 600)

maxRetriesOf(k) == IF k = "login" THEN authMaxRetries ELSE defaultMaxRetries

\* A variant of GivesUp whose loop runs one attempt further.
GivesUpLate(k, att, error) ==
  \/ att = maxRetriesOf(k) + 1
  \/ error.cls = "AxiosError" /\ ~retryCondition(error)

\* retryRequest's catch block: TRUE when the loop breaks and lastError is thrown.
GivesUp(k, att, error) ==
  \/ att = maxRetriesOf(k)
  \/ error.cls = "AxiosError" /\ ~retryCondition(error)

(***************************************************************************)
(* Circuit breaker.                                                        *)
(***************************************************************************)
\* A variant of onSuccess that closes the breaker and keeps the count.
onSuccessKeepsCount(b) == [b EXCEPT !.state = "closed"]

onSuccess(b) == [b EXCEPT !.failureCount = 0, !.state = "closed"]

\* A variant of onFailure that opens one failure late.
onFailureLate(b, t) ==
  LET n == b.failureCount + 1 IN
  [b EXCEPT !.failureCount = n,
            !.lastFailureTime = t,
            !.state = IF n > maxFailures THEN "open" ELSE b.state]

onFailure(b, t) ==
  LET n == b.failureCount + 1 IN
  [b EXCEPT !.failureCount = n,
            !.lastFailureTime = t,
            !.state = IF n >= maxFailures THEN "open" ELSE b.state]

\* The gate at the head of execute: TRUE when the call is thrown out.
Rejects(b, t) == b.state = "open" /\ ~(t - b.lastFailureTime >= resetTimeout)

\* The breaker after the gate let the call in.
Admit(b) == IF b.state = "open" THEN [b EXCEPT !.state = "half-open"] ELSE b

(***************************************************************************)
(* Initial state.                                                          *)
(***************************************************************************)
InitApi ==
  /\ cb = [state |-> "closed", failureCount |-> 0, lastFailureTime |-> 0]
  /\ now = 0
  /\ kind = [c \in Calls |-> "getTodos"]
  /\ phase = [c \in Calls |-> "idle"]
  /\ attempt = [c \in Calls |-> 0]
  /\ transports = [c \in Calls |-> 0]
  /\ lastError = [c \in Calls |-> NoError]
  /\ outcome = [c \in Calls |-> "none"]
  /\ raised = [c \in Calls |-> NoError]
  /\ adm = [c \in Calls |-> "closed"]
  /\ failStreak = 0
  /\ lastOpFail = 0

apiVars == <<breakerVars, callVars, ghostVars>>

(***************************************************************************)
(* Actions of the facade.                                                  *)
(***************************************************************************)
Tick ==
  /\ now < MaxTime
  /\ now' = now + TickMs
  /\ UNCHANGED <<breakerVars, callVars, ghostVars, cacheVars>>

\* A variant of Begin in which a call the gate throws out counts as a failure.
BeginCountsRejected(c, k) ==
  /\ phase[c] = "idle"
  /\ kind' = [kind EXCEPT ![c] = k]
  /\ attempt' = [attempt EXCEPT ![c] = 0]
  /\ IF Rejects(cb, now)
       THEN /\ outcome' = [outcome EXCEPT ![c] = "rejected"]
            /\ raised' = [raised EXCEPT ![c] = CircuitOpenError]
            /\ lastError' = [lastError EXCEPT ![c] = NoError]
            /\ transports' = [transports EXCEPT ![c] = 0]
            /\ cb' = onFailure(cb, now)
            /\ UNCHANGED <<phase, adm>>
       ELSE /\ cb' = Admit(cb)
            /\ adm' = [adm EXCEPT ![c] =
                         IF cb.state = "open" THEN "probe"
                         ELSE IF cb.state = "half-open" THEN "halfopen"
                         ELSE "closed"]
            /\ phase' = [phase EXCEPT ![c] = "flight"]
            /\ transports' = [transports EXCEPT ![c] = 1]
            /\ outcome' = [outcome EXCEPT ![c] = "none"]
            /\ raised' = [raised EXCEPT ![c] = NoError]
            /\ lastError' = [lastError EXCEPT ![c] = NoError]
  /\ UNCHANGED <<now, ghostVars, cacheVars>>

\* makeRequest -> circuitBreaker.execute: the gate, then the first attempt.
Begin(c, k) ==
  /\ phase[c] = "idle"
  /\ kind' = [kind EXCEPT ![c] = k]
  /\ attempt' = [attempt EXCEPT ![c] = 0]
  /\ IF Rejects(cb, now)
       THEN /\ outcome' = [outcome EXCEPT ![c] = "rejected"]
            /\ raised' = [raised EXCEPT ![c] = CircuitOpenError]
            /\ lastError' = [lastError EXCEPT ![c] = NoError]
            /\ transports' = [transports EXCEPT ![c] = 0]
            /\ UNCHANGED <<cb, phase, adm>>
       ELSE /\ cb' = Admit(cb)
            /\ adm' = [adm EXCEPT ![c] =
                         IF cb.state = "open" THEN "probe"
                         ELSE IF cb.state = "half-open" THEN "halfopen"
                         ELSE "closed"]
            /\ phase' = [phase EXCEPT ![c] = "flight"]
            /\ transports' = [transports EXCEPT ![c] = 1]
            /\ outcome' = [outcome EXCEPT ![c] = "none"]
            /\ raised' = [raised EXCEPT ![c] = NoError]
            /\ lastError' = [lastError EXCEPT ![c] = NoError]
  /\ UNCHANGED <<now, ghostVars, cacheVars>>

\* The attempt resolves: retryRequest returns, execute runs onSuccess.
TransportOk(c) ==
  /\ phase[c] = "flight"
  /\ cb' = onSuccess(cb)
  /\ phase' = [phase EXCEPT ![c] = "idle"]
  /\ outcome' = [outcome EXCEPT ![c] = "ok"]
  /\ failStreak' = 0
  /\ UNCHANGED <<now, kind, attempt, transports, lastError, raised, adm, lastOpFail, cacheVars>>

\* A variant of TransportFail in which the breaker sees every failed attempt.
TransportFailPerAttempt(c, raw) ==
  /\ phase[c] = "flight"
  /\ LET error == Intercepted(kind[c], raw) IN
     /\ lastError' = [lastError EXCEPT ![c] = error]
     /\ cb' = onFailure(cb, now)
     /\ IF GivesUp(kind[c], attempt[c], error)
          THEN /\ phase' = [phase EXCEPT ![c] = "idle"]
               /\ outcome' = [outcome EXCEPT ![c] = "error"]
               /\ raised' = [raised EXCEPT ![c] = error]
               /\ failStreak' = failStreak + 1
               /\ lastOpFail' = now
               /\ UNCHANGED attempt
          ELSE /\ phase' = [phase EXCEPT ![c] = "sleep"]
               /\ attempt' = [attempt EXCEPT ![c] = attempt[c] + 1]
               /\ UNCHANGED <<outcome, raised, ghostVars>>
  /\ UNCHANGED <<now, kind, transports, adm, cacheVars>>

\* A variant of TransportFail in which the breaker passes over an operation
\* that failed with a 4xx response.
TransportFailSkips4xx(c, raw) ==
  /\ phase[c] = "flight"
  /\ LET error == Intercepted(kind[c], raw) IN
     /\ lastError' = [lastError EXCEPT ![c] = error]
     /\ IF GivesUp(kind[c], attempt[c], error)
          THEN /\ cb' = IF error.status >= 400 /\ error.status < 500
                          THEN cb ELSE onFailure(cb, now)
               /\ phase' = [phase EXCEPT ![c] = "idle"]
               /\ outcome' = [outcome EXCEPT ![c] = "error"]
               /\ raised' = [raised EXCEPT ![c] = error]
               /\ failStreak' = failStreak + 1
               /\ lastOpFail' = now
               /\ UNCHANGED attempt
          ELSE /\ phase' = [phase EXCEPT ![c] = "sleep"]
               /\ attempt' = [attempt EXCEPT ![c] = attempt[c] + 1]
               /\ UNCHANGED <<cb, outcome, raised, ghostVars>>
  /\ UNCHANGED <<now, kind, transports, adm, cacheVars>>

\* A variant of TransportFail whose loop throws the error of the attempt
\* before the last one.
TransportFailStale(c, raw) ==
  /\ phase[c] = "flight"
  /\ LET error == Intercepted(kind[c], raw) IN
     /\ lastError' = [lastError EXCEPT ![c] = error]
     /\ IF GivesUp(kind[c], attempt[c], error)
          THEN /\ cb' = onFailure(cb, now)
               /\ phase' = [phase EXCEPT ![c] = "idle"]
               /\ outcome' = [outcome EXCEPT ![c] = "error"]
               /\ raised' = [raised EXCEPT ![c] =
                               IF lastError[c] = NoError THEN error ELSE lastError[c]]
               /\ failStreak' = failStreak + 1
               /\ lastOpFail' = now
               /\ UNCHANGED attempt
          ELSE /\ phase' = [phase EXCEPT ![c] = "sleep"]
               /\ attempt' = [attempt EXCEPT ![c] = attempt[c] + 1]
               /\ UNCHANGED <<cb, outcome, raised, ghostVars>>
  /\ UNCHANGED <<now, kind, transports, adm, cacheVars>>

\* The attempt rejects: retryRequest's catch either breaks out of the loop,
\* and execute runs onFailure and rethrows, or goes on to the backoff sleep.
TransportFail(c, raw) ==
  /\ phase[c] = "flight"
  /\ LET error == Intercepted(kind[c], raw) IN
     /\ lastError' = [lastError EXCEPT ![c] = error]
     /\ IF GivesUp(kind[c], attempt[c], error)
          THEN /\ cb' = onFailure(cb, now)
               /\ phase' = [phase EXCEPT ![c] = "idle"]
               /\ outcome' = [outcome EXCEPT ![c] = "error"]
               /\ raised' = [raised EXCEPT ![c] = error]
               /\ failStreak' = failStreak + 1
               /\ lastOpFail' = now
               /\ UNCHANGED attempt
          ELSE /\ phase' = [phase EXCEPT ![c] = "sleep"]
               /\ attempt' = [attempt EXCEPT ![c] = attempt[c] + 1]
               /\ UNCHANGED <<cb, outcome, raised, ghostVars>>
  /\ UNCHANGED <<now, kind, transports, adm, cacheVars>>

\* The backoff timer fires and the next attempt is issued.
Wake(c) ==
  /\ phase[c] = "sleep"
  /\ phase' = [phase EXCEPT ![c] = "flight"]
  /\ transports' = [transports EXCEPT ![c] = transports[c] + 1]
  /\ UNCHANGED <<cb, now, kind, attempt, lastError, outcome, raised, adm, ghostVars, cacheVars>>

(***************************************************************************)
(* The tasks cache and its optimistic mutations (hooks/queries/useTodos).  *)
(***************************************************************************)
Muts == 1..MaxMuts

\* The cached task lists: queryKeys.todoList({filter}) for two filters.
QKeys == {"all", "completed"}

\* A field that is not set.
Undefined == 0 - 1

SrvId(n) == [ns |-> "srv", n |-> n]
\* `temp_${Date.now()}`
TempId(t) == [ns |-> "temp", n |-> t]
NoId == [ns |-> "none", n |-> 0]

NoEntry == [has |-> FALSE, data |-> <<>>]
NoSnap == [has |-> FALSE, data |-> <<>>, eff |-> {}]
NoCtx == [tempId |-> NoId, prev |-> [q \in QKeys |-> NoSnap]]
NoRequest == [st |-> "none", resp |-> <<>>, old |-> FALSE]

MapTodos(data, F(_)) == [i \in DOMAIN data |-> F(data[i])]

\* onMutate of useCreateTodo: the placeholder and its place in an entry.
tempTodo(t) ==
  [id |-> TempId(t), title |-> "n", completed |-> FALSE,
   completedAt |-> Undefined, updatedAt |-> t]

OptimisticCreate(data, t) == <<tempTodo(t)>> \o data

\* onMutate of useUpdateTodo (the edit sets the title).
OptimisticUpdate(data, id, t) ==
  MapTodos(data, LAMBDA todo :
    IF todo.id = id THEN [todo EXCEPT !.title = "e", !.updatedAt = t] ELSE todo)

\* A variant of OptimisticToggle that flips the flag and leaves completedAt.
OptimisticToggleFlagOnly(data, id, t) ==
  MapTodos(data, LAMBDA todo :
    IF todo.id = id
      THEN [todo EXCEPT !.completed = ~todo.completed, !.updatedAt = t]
      ELSE todo)

\* onMutate of useToggleTodo.
OptimisticToggle(data, id, t) ==
  MapTodos(data, LAMBDA todo :
    IF todo.id = id
      THEN [todo EXCEPT !.completed = ~todo.completed,
                        !.completedAt = IF ~todo.completed THEN t ELSE Undefined,
                        !.updatedAt = t]
      ELSE todo)

\* onMutate of useDeleteTodo.
OptimisticDelete(data, id) == SelectSeq(data, LAMBDA todo : todo.id # id)

Speculate(k, data, id, t) ==
  CASE k = "create" -> OptimisticCreate(data, t)
    [] k = "update" -> OptimisticUpdate(data, id, t)
    [] k = "toggle" -> OptimisticToggle(data, id, t)
    [] k = "delete" -> OptimisticDelete(data, id)

\* A variant of ReconcileCreate that drops the placeholder and puts the
\* server's task in front.
ReconcilePrepend(data, tempId, newTodo) ==
  <<newTodo>> \o SelectSeq(data, LAMBDA todo : todo.id # tempId)

\* onSuccess of useCreateTodo, for one entry.
ReconcileCreate(data, tempId, newTodo) ==
  MapTodos(data, LAMBDA todo : IF todo.id = tempId THEN newTodo ELSE todo)

\* A variant of ReplaceById that keeps the cached record.
ReplaceByIdNone(data, updatedTodo) == data

\* onSuccess of useUpdateTodo and useToggleTodo, for one entry.
ReplaceById(data, updatedTodo) ==
  MapTodos(data, LAMBDA todo : IF todo.id = updatedTodo.id THEN updatedTodo ELSE todo)

\* The server (controllers/todo.controller).
OnServer(id) == \E i \in DOMAIN server : server[i].id = id

ServerRecord(id) == server[CHOOSE i \in DOMAIN server : server[i].id = id]

ServerCreated(t) ==
  [id |-> SrvId(nextId), title |-> "n", completed |-> FALSE,
   completedAt |-> Undefined, updatedAt |-> t]

ServerUpdated(id, t) == [ServerRecord(id) EXCEPT !.title = "e", !.updatedAt = t]

ServerToggled(id, t) ==
  LET todo == ServerRecord(id) IN
  [todo EXCEPT !.completed = ~todo.completed,
               !.completedAt = IF ~todo.completed THEN t ELSE Undefined,
               !.updatedAt = t]

\* getTodos of the server: the filter applied, newest first.
ServerList(q) ==
  IF q = "completed" THEN SelectSeq(server, LAMBDA todo : todo.completed) ELSE server

\* The real ids the cached lists show: what the user can edit, toggle or delete.
CachedIds ==
  {id \in UNION {{cache[q].data[i].id : i \in DOMAIN cache[q].data} : q \in QKeys} :
     id.ns = "srv"}

InitCache ==
  /\ server = << [id |-> SrvId(1), title |-> "a", completed |-> FALSE,
                  completedAt |-> Undefined, updatedAt |-> 0] >>
  /\ nextId = 2
  /\ cache = [q \in QKeys |-> NoEntry]
  /\ effects = [q \in QKeys |-> {}]
  /\ fetch = [q \in QKeys |-> "idle"]
  /\ pending = [q \in QKeys |-> NoRequest]
  /\ staleWritten = FALSE
  /\ mkind = [m \in Muts |-> "create"]
  /\ marg = [m \in Muts |-> NoId]
  /\ mphase = [m \in Muts |-> "new"]
  /\ ctx = [m \in Muts |-> NoCtx]
  /\ moutcome = [m \in Muts |-> "none"]

(***************************************************************************)
(* The read deduplicator of the facade (RequestDeduplicator, getTodos,     *)
(* getCurrentUser) and the methods that go straight to makeRequest.        *)
(***************************************************************************)
\* Facade methods the deduplicated facade is called with.
FacadeKinds == {"getTodos", "getCurrentUser", "createTodo"}

\* TodoQuery values: a text field that is not given is "", a number that is
\* not given is 0 (the method tests the fields for truthiness).
NoQuery == [filter |-> "", page |-> 0, limit |-> 0, sortBy |-> "", sortOrder |-> ""]
Queries ==
  {NoQuery,
   [NoQuery EXCEPT !.filter = "completed"],
   [NoQuery EXCEPT !.filter = "today"],
   [NoQuery EXCEPT !.filter = "today", !.page = 2, !.sortOrder = "asc"]}

\* A variant of Params that leaves the filter out.
ParamsNoFilter(qy) ==
  (IF qy.page # 0 THEN <<"page", ToString(qy.page)>> ELSE <<>>)
    \o (IF qy.limit # 0 THEN <<"limit", ToString(qy.limit)>> ELSE <<>>)
    \o (IF qy.sortBy # "" THEN <<"sortBy", qy.sortBy>> ELSE <<>>)
    \o (IF qy.sortOrder # "" THEN <<"sortOrder", qy.sortOrder>> ELSE <<>>)

\* URLSearchParams built by getTodos: the fields that are given, in fixed order.
Params(qy) ==
  (IF qy.filter # "" THEN <<"filter", qy.filter>> ELSE <<>>)
    \o (IF qy.page # 0 THEN <<"page", ToString(qy.page)>> ELSE <<>>)
    \o (IF qy.limit # 0 THEN <<"limit", ToString(qy.limit)>> ELSE <<>>)
    \o (IF qy.sortBy # "" THEN <<"sortBy", qy.sortBy>> ELSE <<>>)
    \o (IF qy.sortOrder # "" THEN <<"sortOrder", qy.sortOrder>> ELSE <<>>)

\* The deduplication key the method builds.
cacheKey(k, qy) == IF k = "getTodos" THEN <<"getTodos_">> \o Params(qy) ELSE <<k>>

DKeys == {cacheKey(k, qy) : k \in FacadeKinds, qy \in Queries}

\* A variant of Deduplicated that wraps no method in the deduplicator.
DeduplicatedNone(k) == FALSE

\* A variant of Deduplicated that wraps every method in the deduplicator.
DeduplicatedAll(k) == TRUE

\* The methods that call deduplicator.deduplicate around makeRequest.
Deduplicated(k) == k \in {"getTodos", "getCurrentUser"}

Values == 1..MaxValues

NoResult == [res |-> "none", err |-> NoError, val |-> 0]

InitDedup ==
  /\ pendingRequests = [key \in DKeys |-> 0]
  /\ query = [c \in Calls |-> NoQuery]
  /\ joined = [c \in Calls |-> 0]
  /\ jres = [c \in Calls |-> NoResult]
  /\ val = [c \in Calls |-> 0]

\* The user is signed in.
InitAuth ==
  /\ authToken = TRUE
  /\ authorization = [c \in Calls |-> FALSE]
  /\ redirected = [c \in Calls |-> FALSE]
  /\ mcall = 0

InitSolo ==
  /\ before = [q \in QKeys |-> NoEntry]
  /\ quiet = TRUE
  /\ late = {}

Execs == 1..MaxExecs

\* useState's initial AsyncState; data 0 is null, error 0 is null.
InitAsync ==
  /\ state = [data |-> 0, loading |-> FALSE, error |-> 0]
  /\ abortControllerRef = 0
  /\ aborted = [e \in Execs |-> FALSE]
  /\ ephase = [e \in Execs |-> "new"]
  /\ eattempt = [e \in Execs |-> 0]
  /\ callbacks = [e \in Execs |-> "none"]
  /\ eresult = [e \in Execs |-> "none"]

InitHist ==
  /\ errors = [c \in Calls |-> <<>>]
  /\ streak = {}

\* No request carries a metadata key.
NoKey == <<>>
NoMetadata == [requestId |-> 0, startTime |-> 0]

InitMeta ==
  /\ requestCounter = 0
  /\ requestMetadata = {}
  /\ metadataKey = [c \in Calls |-> NoKey]
  /\ issued = [c \in Calls |-> NoMetadata]
  /\ duration = [c \in Calls |-> Undefined]

InitToken == renewed = [c \in Calls |-> FALSE]

InitLayers ==
  InitDedup /\ InitAuth /\ InitSolo /\ InitAsync /\ InitHist /\ InitMeta /\ InitToken

Init == InitApi /\ InitCache /\ InitLayers

(***************************************************************************)
(* Actions of the cache: reads.                                            *)
(***************************************************************************)
\* The queries the cache holds: invalidateQueries refetches them.
Held == {q \in QKeys : cache[q].has \/ fetch[q] = "fetching"}

\* RequestDeduplicator.deduplicate for the queries Q: a pending request of the
\* same key is joined, otherwise a request is dispatched.
Deduplicate(Q, pend) ==
  [q \in QKeys |->
     IF q \in Q /\ pend[q].st = "none"
       THEN [st |-> "sent", resp |-> <<>>, old |-> FALSE]
       ELSE pend[q]]

\* useTodosQuery's queryFn runs (mount, refetch, prefetchTodos).
Fetch(q) ==
  /\ fetch[q] = "idle"
  /\ fetch' = [fetch EXCEPT ![q] = "fetching"]
  /\ pending' = Deduplicate({q}, pending)
  /\ UNCHANGED <<now, apiVars, server, nextId, cache, effects, staleWritten,
                 mkind, marg, mphase, ctx, moutcome>>

\* The server answers the request.
Serve(q) ==
  /\ pending[q].st = "sent"
  /\ pending' = [pending EXCEPT ![q] = [@ EXCEPT !.st = "served", !.resp = ServerList(q)]]
  /\ UNCHANGED <<now, apiVars, server, nextId, cache, effects, fetch, staleWritten,
                 mkind, marg, mphase, ctx, moutcome>>

\* The response arrives: the deduplicator drops the key and a fetch that was
\* not cancelled writes response.data.todos into its entry.
ReadOk(q) ==
  /\ pending[q].st = "served"
  /\ pending' = [pending EXCEPT ![q] = NoRequest]
  /\ fetch' = [fetch EXCEPT ![q] = "idle"]
  /\ IF fetch[q] = "fetching"
       THEN /\ cache' = [cache EXCEPT ![q] = [has |-> TRUE, data |-> pending[q].resp]]
            /\ effects' = [effects EXCEPT ![q] = {}]
            /\ staleWritten' = (staleWritten \/ pending[q].old)
       ELSE UNCHANGED <<cache, effects, staleWritten>>
  /\ UNCHANGED <<now, apiVars, server, nextId, mkind, marg, mphase, ctx, moutcome>>

\* The request fails: the key is dropped and the entry keeps its data.
ReadFail(q) ==
  /\ pending[q].st # "none"
  /\ pending' = [pending EXCEPT ![q] = NoRequest]
  /\ fetch' = [fetch EXCEPT ![q] = "idle"]
  /\ UNCHANGED <<now, apiVars, server, nextId, cache, effects, staleWritten,
                 mkind, marg, mphase, ctx, moutcome>>

(***************************************************************************)
(* Actions of the cache: optimistic mutations.                             *)
(***************************************************************************)
\* A variant of Rollback that leaves the entries as they are.
RollbackNone(m, q) == cache[q]

\* onError: every snapshotted entry is set to its snapshot.
Rollback(m, q) ==
  IF ctx[m].prev[q].has
    THEN [has |-> TRUE, data |-> ctx[m].prev[q].data]
    ELSE cache[q]

\* The mutations whose speculative update the entry carries after onError.
RollbackEffects(m, q) ==
  IF ctx[m].prev[q].has THEN ctx[m].prev[q].eff ELSE effects[q]

\* onSettled of useCreateTodo and useDeleteTodo: invalidateQueries.
Invalidates(k) == k \in {"create", "delete"}

\* onMutate: cancelQueries, the snapshot of every entry that holds a list, the
\* speculative update of each; then mutationFn dispatches the call.
Mutate(m, k, id) ==
  /\ mphase[m] = "new"
  /\ IF m = 1 THEN TRUE ELSE mphase[m - 1] # "new"
  /\ IF k = "create" THEN id = NoId ELSE id \in CachedIds
  /\ mkind' = [mkind EXCEPT ![m] = k]
  /\ marg' = [marg EXCEPT ![m] = id]
  /\ mphase' = [mphase EXCEPT ![m] = "pending"]
  /\ fetch' = [q \in QKeys |-> "idle"]
  /\ pending' = [q \in QKeys |->
                   IF pending[q].st # "none" /\ cache[q].has
                     THEN [pending[q] EXCEPT !.old = TRUE]
                     ELSE pending[q]]
  /\ ctx' = [ctx EXCEPT ![m] =
               [tempId |-> IF k = "create" THEN TempId(now) ELSE NoId,
                prev |-> [q \in QKeys |->
                            IF cache[q].has
                              THEN [has |-> TRUE, data |-> cache[q].data, eff |-> effects[q]]
                              ELSE NoSnap]]]
  /\ cache' = [q \in QKeys |->
                 IF cache[q].has
                   THEN [has |-> TRUE, data |-> Speculate(k, cache[q].data, id, now)]
                   ELSE cache[q]]
  /\ effects' = [q \in QKeys |-> IF cache[q].has THEN effects[q] \cup {m} ELSE effects[q]]
  /\ UNCHANGED <<now, apiVars, server, nextId, staleWritten, moutcome>>

\* The server carries the mutation out and the call resolves: onSuccess
\* reconciles, onSettled invalidates.
MutOk(m) ==
  /\ mphase[m] = "pending"
  /\ IF mkind[m] = "create" THEN TRUE ELSE OnServer(marg[m])
  /\ LET k == mkind[m]
         id == marg[m]
         result == CASE k = "create" -> ServerCreated(now)
                     [] k = "update" -> ServerUpdated(id, now)
                     [] k = "toggle" -> ServerToggled(id, now)
                     [] k = "delete" -> ServerRecord(id)
     IN
     /\ server' = CASE k = "create" -> <<result>> \o server
                    [] k = "delete" -> SelectSeq(server, LAMBDA todo : todo.id # id)
                    [] OTHER -> ReplaceById(server, result)
     /\ nextId' = IF k = "create" THEN nextId + 1 ELSE nextId
     /\ cache' = [q \in QKeys |->
                    CASE k = "create" /\ ctx[m].prev[q].has /\ cache[q].has ->
                           [has |-> TRUE,
                            data |-> ReconcileCreate(cache[q].data, ctx[m].tempId, result)]
                      [] k \in {"update", "toggle"} /\ cache[q].has ->
                           [has |-> TRUE, data |-> ReplaceById(cache[q].data, result)]
                      [] OTHER -> cache[q]]
     /\ effects' = [q \in QKeys |-> effects[q] \ {m}]
     /\ IF Invalidates(k)
          THEN /\ fetch' = [q \in QKeys |-> IF q \in Held THEN "fetching" ELSE fetch[q]]
               /\ pending' = Deduplicate(Held, pending)
          ELSE UNCHANGED <<fetch, pending>>
  /\ mphase' = [mphase EXCEPT ![m] = "done"]
  /\ moutcome' = [moutcome EXCEPT ![m] = "ok"]
  /\ ctx' = [ctx EXCEPT ![m] = NoCtx]
  /\ UNCHANGED <<now, apiVars, staleWritten, mkind, marg>>

\* The call fails for good: onError rolls back, onSettled invalidates, and
\* only then mutateAsync rejects.
MutFail(m) ==
  /\ mphase[m] = "pending"
  /\ cache' = [q \in QKeys |-> Rollback(m, q)]
  /\ effects' = [q \in QKeys |-> RollbackEffects(m, q)]
  /\ IF Invalidates(mkind[m])
       THEN /\ fetch' = [q \in QKeys |-> IF q \in Held THEN "fetching" ELSE fetch[q]]
            /\ pending' = Deduplicate(Held, pending)
       ELSE UNCHANGED <<fetch, pending>>
  /\ mphase' = [mphase EXCEPT ![m] = "done"]
  /\ moutcome' = [moutcome EXCEPT ![m] = "error"]
  /\ ctx' = [ctx EXCEPT ![m] = NoCtx]
  /\ UNCHANGED <<now, apiVars, server, nextId, staleWritten, mkind, marg>>

MutKinds == {"create", "update", "toggle", "delete"}

\* The clock while the model follows the cache.
TickCache == now < MaxCacheTicks * TickMs /\ Tick

NextCache ==
  \/ TickCache /\ UNCHANGED layerVars
  \/ \E q \in QKeys : Fetch(q) /\ UNCHANGED layerVars
  \/ \E q \in QKeys : Serve(q) /\ UNCHANGED layerVars
  \/ \E q \in QKeys : ReadOk(q) /\ UNCHANGED layerVars
  \/ \E q \in QKeys : ReadFail(q) /\ UNCHANGED layerVars
  \/ \E m \in Muts, k \in MutKinds, id \in CachedIds \cup {NoId} :
       Mutate(m, k, id) /\ UNCHANGED layerVars
  \/ \E m \in Muts : MutOk(m) /\ UNCHANGED layerVars
  \/ \E m \in Muts : MutFail(m) /\ UNCHANGED layerVars

SpecCache == Init /\ [][NextCache]_vars

(***************************************************************************)
(* Actions of the deduplicated facade.                                     *)
(***************************************************************************)
\* A facade method is called.  A deduplicated method whose key is pending
\* returns the pending promise; otherwise makeRequest runs (Begin) and a
\* deduplicated method puts its promise under the key.  A promise the breaker
\* rejected at once has left the map again before anything else runs.
FacadeCall(c, k, qy) ==
  /\ phase[c] = "idle"
  /\ joined[c] = 0
  /\ IF k = "getTodos" THEN TRUE ELSE qy = NoQuery
  /\ query' = [query EXCEPT ![c] = qy]
  /\ IF Deduplicated(k) /\ pendingRequests[cacheKey(k, qy)] # 0
       THEN /\ joined' = [joined EXCEPT ![c] = pendingRequests[cacheKey(k, qy)]]
            /\ jres' = [jres EXCEPT ![c] = NoResult]
            /\ kind' = [kind EXCEPT ![c] = k]
            /\ UNCHANGED <<pendingRequests, val, cb, now, phase, attempt, transports,
                           lastError, outcome, raised, adm, ghostVars, cacheVars>>
       ELSE /\ Begin(c, k)
            /\ pendingRequests' =
                 IF Deduplicated(k) /\ phase'[c] # "idle"
                   THEN [pendingRequests EXCEPT ![cacheKey(k, qy)] = c]
                   ELSE pendingRequests
            /\ jres' = [jres EXCEPT ![c] = NoResult]
            /\ val' = [val EXCEPT ![c] = 0]
            /\ UNCHANGED joined

\* A variant of PromiseSettled whose catch branch leaves the key in the map.
PromiseSettledKeepsFailed(c) ==
  /\ pendingRequests' = [key \in DKeys |->
                           IF pendingRequests[key] = c /\ outcome'[c] = "ok"
                             THEN 0 ELSE pendingRequests[key]]
  /\ joined' = [j \in Calls |-> IF joined[j] = c THEN 0 ELSE joined[j]]
  /\ jres' = [j \in Calls |->
                IF joined[j] = c
                  THEN [res |-> outcome'[c], err |-> raised'[c], val |-> val'[c]]
                  ELSE jres[j]]

\* deduplicate's continuation when the promise of call c settles: the key is
\* deleted and every caller that was handed the promise settles as it did.
PromiseSettled(c) ==
  /\ pendingRequests' = [key \in DKeys |->
                           IF pendingRequests[key] = c THEN 0 ELSE pendingRequests[key]]
  /\ joined' = [j \in Calls |-> IF joined[j] = c THEN 0 ELSE joined[j]]
  /\ jres' = [j \in Calls |->
                IF joined[j] = c
                  THEN [res |-> outcome'[c], err |-> raised'[c], val |-> val'[c]]
                  ELSE jres[j]]

\* The attempt resolves with response body v.
FacadeOk(c, v) ==
  /\ TransportOk(c)
  /\ val' = [val EXCEPT ![c] = v]
  /\ PromiseSettled(c)
  /\ UNCHANGED query

\* The attempt rejects: a retry keeps the promise pending, giving up settles it.
FacadeFail(c, raw) ==
  /\ TransportFail(c, raw)
  /\ UNCHANGED <<val, query>>
  /\ IF phase'[c] = "idle"
       THEN PromiseSettled(c)
       ELSE UNCHANGED <<pendingRequests, joined, jres>>

FacadeWake(c) == Wake(c) /\ UNCHANGED dedupVars

\* The transport failure the deduplicated facade is run against: no response
\* (the retry loop treats the four failures alike for these methods).
DedupFailures == {raw \in AxiosErrors : raw.code \in {"ERR_NETWORK"}}

NextDedup ==
  \/ \E c \in Calls, k \in FacadeKinds, qy \in Queries :
       FacadeCall(c, k, qy) /\ UNCHANGED aboveDedup
  \/ \E c \in Calls, v \in Values : FacadeOk(c, v) /\ UNCHANGED aboveDedup
  \/ \E c \in Calls, raw \in DedupFailures : FacadeFail(c, raw) /\ UNCHANGED aboveDedup
  \/ \E c \in Calls : FacadeWake(c) /\ UNCHANGED aboveDedup

SpecDedup == Init /\ [][NextDedup]_vars

(***************************************************************************)
(* The credential: the interceptors of the axios instance, sign-in, and    *)
(* the dispatch of an optimistic mutation through the facade.              *)
(***************************************************************************)
\* A response the server denies authorization with.
Unauthorized == [cls |-> "AxiosError", code |-> "ERR_BAD_REQUEST", status |-> 401]

\* The transport failures the authorised facade is run against.
AuthFailures ==
  {Unauthorized} \cup {raw \in AxiosErrors : raw.code = "ERR_NETWORK"}

\* The facade method a mutation of the cache dispatches.
MethodOf(k) ==
  CASE k = "create" -> "createTodo"
    [] k = "update" -> "updateTodo"
    [] k = "toggle" -> "toggleTodo"
    [] k = "delete" -> "deleteTodo"

\* The mutation whose call is under way.
PendingMuts == {m \in Muts : mphase[m] = "pending"}

\* A variant of Handles401 in which the interceptor has no 401 branch.
Handles401Never(k, raw) == FALSE

\* The 401 branch of the response interceptor runs.
Handles401(k, raw) == ViaInstance(k) /\ raw.status = 401

\* The request interceptor: the Authorization header of a dispatch.
Attach(c, k) ==
  authorization' = [authorization EXCEPT ![c] =
                      IF phase'[c] = "flight" THEN ViaInstance(k) /\ authToken ELSE @]

\* login is called.
AuthBegin(c, k) ==
  /\ c # mcall
  /\ Begin(c, k)
  /\ Attach(c, k)
  /\ redirected' = [redirected EXCEPT ![c] = FALSE]
  /\ UNCHANGED <<authToken, mcall>>

\* mutationFn of the pending mutation calls its facade method.
AuthDispatch(c, m) ==
  /\ mphase[m] = "pending"
  /\ mcall = 0
  /\ Begin(c, MethodOf(mkind[m]))
  /\ Attach(c, MethodOf(mkind[m]))
  /\ redirected' = [redirected EXCEPT ![c] = FALSE]
  /\ mcall' = c
  /\ UNCHANGED authToken

\* The attempt resolves; the server answers a protected route only to a
\* dispatch that carried the token.  useLogin.onSuccess stores the new token.
AuthOk(c) ==
  /\ kind[c] = "login" \/ authorization[c]
  /\ TransportOk(c)
  /\ authToken' = IF kind[c] = "login" THEN TRUE ELSE authToken
  /\ UNCHANGED <<authorization, redirected, mcall>>

\* The attempt rejects: on a 401 the response interceptor removes the token
\* and sets the location before it rejects.
AuthFail(c, raw) ==
  /\ TransportFail(c, raw)
  /\ IF Handles401(kind[c], raw)
       THEN /\ authToken' = FALSE
            /\ redirected' = [redirected EXCEPT ![c] = TRUE]
       ELSE UNCHANGED <<authToken, redirected>>
  /\ UNCHANGED <<authorization, mcall>>

\* The backoff timer fires: the retry passes the request interceptor again.
AuthWake(c) ==
  /\ Wake(c)
  /\ Attach(c, kind[c])
  /\ UNCHANGED <<authToken, redirected, mcall>>

\* onMutate of a mutation while no other mutation is pending.
AuthMutate(m, k, id) ==
  /\ PendingMuts = {}
  /\ Mutate(m, k, id)
  /\ UNCHANGED authVars

\* The mutation's call resolved: onSuccess and onSettled run.
AuthOnSuccess(m) ==
  /\ mcall # 0
  /\ phase[mcall] = "idle" /\ outcome[mcall] = "ok"
  /\ MutOk(m)
  /\ mcall' = 0
  /\ UNCHANGED <<authToken, authorization, redirected>>

\* The mutation's call rejected: onError and onSettled run.
AuthOnError(m) ==
  /\ mcall # 0
  /\ phase[mcall] = "idle" /\ outcome[mcall] \in {"error", "rejected"}
  /\ MutFail(m)
  /\ mcall' = 0
  /\ UNCHANGED <<authToken, authorization, redirected>>

\* The task lists are read before the first mutation starts.
AuthRead(q) ==
  /\ \A m \in Muts : mphase[m] = "new"
  /\ Fetch(q) \/ Serve(q) \/ ReadOk(q)
  /\ UNCHANGED authVars

\* One optimistic mutation is followed; its call is call 1, sign-in is call 2.
AuthMuts == {1}
MutCall == 1
LoginCall == 2

NextAuth ==
  \/ AuthBegin(LoginCall, "login") /\ UNCHANGED aboveAuth
  \/ \E m \in AuthMuts : AuthDispatch(MutCall, m) /\ UNCHANGED aboveAuth
  \/ \E c \in Calls : AuthOk(c) /\ UNCHANGED aboveAuth
  \/ \E c \in Calls, raw \in AuthFailures : AuthFail(c, raw) /\ UNCHANGED aboveAuth
  \/ \E c \in Calls : AuthWake(c) /\ UNCHANGED aboveAuth
  \/ \E m \in AuthMuts, k \in {"create", "toggle"}, id \in CachedIds \cup {NoId} :
       AuthMutate(m, k, id) /\ UNCHANGED aboveAuth
  \/ \E m \in AuthMuts : AuthOnSuccess(m) /\ UNCHANGED aboveAuth
  \/ \E m \in AuthMuts : AuthOnError(m) /\ UNCHANGED aboveAuth
  \/ \E q \in QKeys : AuthRead(q) /\ UNCHANGED aboveAuth

SpecAuth == Init /\ [][NextAuth]_vars

\* The handlers of a mutation run once its call has settled.
FairAuth ==
  /\ SpecAuth
  /\ WF_vars(\E m \in AuthMuts : AuthOnError(m) /\ UNCHANGED aboveAuth)

(***************************************************************************)
(* The credential, with the sign-ins that follow a dispatch recorded.      *)
(***************************************************************************)
\* The facade methods the calls are made with: sign-in and a protected read.
TokenKinds == {"login", "getTodos"}

TokenBegin(c, k) ==
  /\ AuthBegin(c, k)
  /\ renewed' = [renewed EXCEPT ![c] = IF phase'[c] = "flight" THEN FALSE ELSE @]

TokenWake(c) ==
  /\ AuthWake(c)
  /\ renewed' = [renewed EXCEPT ![c] = FALSE]

\* useLogin.onSuccess stores the token of the sign-in: every request that is
\* with the transport carrying a token carries an older one from now on.
TokenOk(c) ==
  /\ AuthOk(c)
  /\ renewed' = [d \in Calls |->
                   IF kind[c] = "login" /\ d # c /\ phase[d] = "flight" /\ authorization[d]
                     THEN TRUE ELSE renewed[d]]

TokenFail(c, raw) ==
  /\ AuthFail(c, raw)
  /\ UNCHANGED renewed

NextToken ==
  \/ \E c \in Calls, k \in TokenKinds : TokenBegin(c, k) /\ UNCHANGED aboveToken
  \/ \E c \in Calls : TokenWake(c) /\ UNCHANGED aboveToken
  \/ \E c \in Calls : TokenOk(c) /\ UNCHANGED aboveToken
  \/ \E c \in Calls, raw \in AuthFailures : TokenFail(c, raw) /\ UNCHANGED aboveToken

SpecToken == Init /\ [][NextToken]_vars

(***************************************************************************)
(* The cache with its mutations started one at a time.                     *)
(***************************************************************************)
\* onMutate while no other mutation is pending.
SoloMutate(m, k, id) ==
  /\ PendingMuts = {}
  /\ Mutate(m, k, id)
  /\ before' = cache
  /\ quiet' = TRUE
  /\ late' = {}

\* The call resolves; the entries onSuccess wrote beyond the snapshot are noted.
SoloOk(m) ==
  /\ MutOk(m)
  /\ late' = {q \in QKeys :
                /\ mkind[m] \in {"update", "toggle"}
                /\ cache[q].has /\ ~before[q].has
                /\ \E i \in DOMAIN cache[q].data :
                     cache[q].data[i].id = marg[m] /\ cache'[q].data[i] # cache[q].data[i]}
  /\ UNCHANGED <<before, quiet>>

SoloFail(m) ==
  /\ MutFail(m)
  /\ UNCHANGED soloVars

SoloRead(q) ==
  /\ Fetch(q) \/ Serve(q) \/ ReadOk(q)
  /\ quiet' = FALSE
  /\ UNCHANGED <<before, late>>

NextSolo ==
  \/ TickCache /\ UNCHANGED layerVars
  \/ \E m \in Muts, k \in MutKinds, id \in CachedIds \cup {NoId} :
       SoloMutate(m, k, id) /\ UNCHANGED aboveSolo
  \/ \E m \in Muts : SoloOk(m) /\ UNCHANGED aboveSolo
  \/ \E m \in Muts : SoloFail(m) /\ UNCHANGED aboveSolo
  \/ \E q \in QKeys : SoloRead(q) /\ UNCHANGED aboveSolo

SpecSolo == Init /\ [][NextSolo]_vars

(***************************************************************************)
(* useAsyncOperation (hooks/useAsyncOperation.ts).                         *)
(***************************************************************************)
\* A variant of Cancelled for an execute that never looks at its signal.
CancelledNever(e) == FALSE

\* signal.aborted, as execution e reads it.
Cancelled(e) == aborted[e]

\* abortControllerRef.current.abort(), when the ref holds a controller.
Abort ==
  [e \in Execs |-> IF e = abortControllerRef THEN TRUE ELSE aborted[e]]

\* execute is called: the previous controller is aborted, a new one is put in
\* the ref, loading is set, and the first attempt calls asyncFunction.
Execute(e) ==
  /\ ephase[e] = "new"
  /\ IF e = 1 THEN TRUE ELSE ephase[e - 1] # "new"
  /\ aborted' = Abort
  /\ abortControllerRef' = e
  /\ state' = [state EXCEPT !.loading = TRUE, !.error = 0]
  /\ ephase' = [ephase EXCEPT ![e] = "waiting"]
  /\ UNCHANGED <<eattempt, callbacks, eresult>>

\* The catch branch of a cancelled execution: loading is cleared and execute
\* returns undefined.
ReturnUndefined(e) ==
  /\ state' = [state EXCEPT !.loading = FALSE]
  /\ ephase' = [ephase EXCEPT ![e] = "done"]
  /\ eresult' = [eresult EXCEPT ![e] = "undefined"]
  /\ UNCHANGED <<eattempt, callbacks>>

\* asyncFunction resolves with v.
Resolve(e, v) ==
  /\ ephase[e] = "waiting"
  /\ IF Cancelled(e)
       THEN ReturnUndefined(e)
       ELSE /\ state' = [data |-> v, loading |-> FALSE, error |-> 0]
            /\ callbacks' = [callbacks EXCEPT ![e] = "onSuccess"]
            /\ ephase' = [ephase EXCEPT ![e] = "done"]
            /\ eresult' = [eresult EXCEPT ![e] = "value"]
            /\ UNCHANGED eattempt
  /\ UNCHANGED <<abortControllerRef, aborted>>

\* asyncFunction rejects: the catch block, and for an attempt that is not the
\* last the head of the next iteration up to its backoff timer.
Reject(e) ==
  /\ ephase[e] = "waiting"
  /\ IF Cancelled(e)
       THEN ReturnUndefined(e)
       ELSE IF eattempt[e] = retryAttempts
         THEN /\ state' = [data |-> 0, loading |-> FALSE, error |-> e]
              /\ callbacks' = [callbacks EXCEPT ![e] = "onError"]
              /\ ephase' = [ephase EXCEPT ![e] = "done"]
              /\ eresult' = [eresult EXCEPT ![e] = "raised"]
              /\ UNCHANGED eattempt
         ELSE /\ eattempt' = [eattempt EXCEPT ![e] = eattempt[e] + 1]
              /\ ephase' = [ephase EXCEPT ![e] = "delay"]
              /\ UNCHANGED <<state, callbacks, eresult>>
  /\ UNCHANGED <<abortControllerRef, aborted>>

\* The backoff timer fires and asyncFunction is called again.
Retry(e) ==
  /\ ephase[e] = "delay"
  /\ ephase' = [ephase EXCEPT ![e] = "waiting"]
  /\ UNCHANGED <<state, abortControllerRef, aborted, eattempt,
                 callbacks, eresult>>

\* cancel().
Cancel ==
  /\ abortControllerRef # 0
  /\ aborted' = Abort
  /\ state' = [state EXCEPT !.loading = FALSE]
  /\ UNCHANGED <<abortControllerRef, ephase, eattempt, callbacks, eresult>>

\* reset(): cancel(), then the initial state.
Reset ==
  /\ aborted' = Abort
  /\ state' = [data |-> 0, loading |-> FALSE, error |-> 0]
  /\ UNCHANGED <<abortControllerRef, ephase, eattempt, callbacks, eresult>>

NextAsync ==
  \/ \E e \in Execs : Execute(e) /\ UNCHANGED besideAsync
  \/ \E e \in Execs, v \in Values : Resolve(e, v) /\ UNCHANGED besideAsync
  \/ \E e \in Execs : Reject(e) /\ UNCHANGED besideAsync
  \/ \E e \in Execs : Retry(e) /\ UNCHANGED besideAsync
  \/ Cancel /\ UNCHANGED besideAsync
  \/ Reset /\ UNCHANGED besideAsync

SpecAsync == Init /\ [][NextAsync]_vars

AllIdle == \A c \in Calls : phase[c] = "idle"

(***************************************************************************)
(* The facade with its calls issued one after another, what each attempt  *)
(* rejected with and which operations failed in a row being recorded.      *)
(***************************************************************************)
\* The transport failures the recorded facade is run against: a response
\* with status 400 and no response.
HistFailures == {raw \in AxiosErrors : raw.code \in {"ERR_BAD_REQUEST", "ERR_NETWORK"}}

HistBegin(c, k) ==
  /\ AllIdle
  /\ Begin(c, k)
  /\ errors' = [errors EXCEPT ![c] = <<>>]
  /\ UNCHANGED streak

\* execute's onSuccess ends the run of failed operations.
HistOk(c) ==
  /\ TransportOk(c)
  /\ streak' = {}
  /\ UNCHANGED errors

\* request() rejected with what the response interceptor made of the failure
\* (the failure itself where there is no interceptor).
HistFail(c, raw) ==
  /\ TransportFail(c, raw)
  /\ errors' = [errors EXCEPT ![c] = Append(@, Intercepted(kind[c], raw))]
  /\ streak' = IF phase'[c] = "idle"
                 THEN streak \cup {<<kind[c], raised'[c].status>>}
                 ELSE streak

HistWake(c) == Wake(c) /\ UNCHANGED histVars

(***************************************************************************)
(* The request metadata the interceptors of the axios instance keep.       *)
(***************************************************************************)
\* config.method and config.url of the request a facade method issues.
methodOf(k) == IF k = "login" THEN "post" ELSE "get"
urlOf(k) == IF k = "login" THEN "/auth/login" ELSE "/todos?"

\* `${config.method}_${config.url}_${requestId}`
metadataKeyOf(k, requestId) == <<methodOf(k), urlOf(k), requestId>>

\* requestMetadata.set, .get and .delete.
MetadataSet(map, key, metadata) ==
  {e \in map : e.key # key} \cup {[key |-> key, metadata |-> metadata]}
MetadataHas(map, key) == \E e \in map : e.key = key
MetadataGet(map, key) == (CHOOSE e \in map : e.key = key).metadata
MetadataDelete(map, key) == {e \in map : e.key # key}

\* The request interceptor, for the request call c hands to the transport in
\* this step; a request that does not go through the axios instance passes
\* no interceptor and its config carries no key.
RequestInterceptor(c, k) ==
  IF phase'[c] = "flight" /\ ViaInstance(k)
    THEN LET requestId == requestCounter + 1
             metadata == [requestId |-> requestId, startTime |-> now]
         IN /\ requestCounter' = requestId
            /\ requestMetadata' =
                 MetadataSet(requestMetadata, metadataKeyOf(k, requestId), metadata)
            /\ metadataKey' = [metadataKey EXCEPT ![c] = metadataKeyOf(k, requestId)]
            /\ issued' = [issued EXCEPT ![c] = metadata]
    ELSE /\ metadataKey' = [metadataKey EXCEPT ![c] = NoKey]
         /\ issued' = [issued EXCEPT ![c] = NoMetadata]
         /\ UNCHANGED <<requestCounter, requestMetadata>>

\* The response interceptor (both branches): the duration it logs and the
\* clean-up of the entry under the key the config carries.
ResponseInterceptor(c) ==
  /\ duration' = [duration EXCEPT ![c] =
                     IF metadataKey[c] # NoKey /\ MetadataHas(requestMetadata, metadataKey[c])
                       THEN now - MetadataGet(requestMetadata, metadataKey[c]).startTime
                       ELSE Undefined]
  /\ requestMetadata' =
       IF metadataKey[c] # NoKey
         THEN MetadataDelete(requestMetadata, metadataKey[c])
         ELSE requestMetadata
  /\ UNCHANGED <<requestCounter, metadataKey, issued>>

MetaBegin(c, k) ==
  /\ requestCounter < MaxRequests
  /\ Begin(c, k)
  /\ RequestInterceptor(c, k)
  /\ UNCHANGED duration

MetaWake(c) ==
  /\ requestCounter < MaxRequests
  /\ Wake(c)
  /\ RequestInterceptor(c, kind[c])
  /\ UNCHANGED duration

MetaOk(c) == TransportOk(c) /\ ResponseInterceptor(c)

MetaFail(c, raw) == TransportFail(c, raw) /\ ResponseInterceptor(c)

NextMeta ==
  \/ Tick /\ UNCHANGED layerVars
  \/ \E c \in Calls, k \in Kinds : MetaBegin(c, k) /\ UNCHANGED aboveMeta
  \/ \E c \in Calls : MetaWake(c) /\ UNCHANGED aboveMeta
  \/ \E c \in Calls : MetaOk(c) /\ UNCHANGED aboveMeta
  \/ \E c \in Calls, raw \in DedupFailures : MetaFail(c, raw) /\ UNCHANGED aboveMeta

SpecMeta == Init /\ [][NextMeta]_vars

NextHist ==
  \/ Tick /\ UNCHANGED layerVars
  \/ \E c \in SeqCalls, k \in Kinds : HistBegin(c, k) /\ UNCHANGED aboveHist
  \/ \E c \in SeqCalls : HistOk(c) /\ UNCHANGED aboveHist
  \/ \E c \in SeqCalls, raw \in HistFailures : HistFail(c, raw) /\ UNCHANGED aboveHist
  \/ \E c \in SeqCalls : HistWake(c) /\ UNCHANGED aboveHist

SpecHist == Init /\ [][NextHist]_vars

\* Overlapping calls.
Next ==
  \/ Tick /\ UNCHANGED layerVars
  \/ \E c \in Calls, k \in Kinds : Begin(c, k) /\ UNCHANGED layerVars
  \/ \E c \in Calls : TransportOk(c) /\ UNCHANGED layerVars
  \/ \E c \in Calls, raw \in AxiosErrors : TransportFail(c, raw) /\ UNCHANGED layerVars
  \/ \E c \in Calls : Wake(c) /\ UNCHANGED layerVars

Spec == Init /\ [][Next]_vars

\* Calls issued one after another.
NextSeq ==
  \/ Tick /\ UNCHANGED layerVars
  \/ \E c \in SeqCalls, k \in Kinds : AllIdle /\ Begin(c, k) /\ UNCHANGED layerVars
  \/ \E c \in SeqCalls : TransportOk(c) /\ UNCHANGED layerVars
  \/ \E c \in SeqCalls, raw \in AxiosErrors : TransportFail(c, raw) /\ UNCHANGED layerVars
  \/ \E c \in SeqCalls : Wake(c) /\ UNCHANGED layerVars

SpecSeq == Init /\ [][NextSeq]_vars

\* Calls issued one after another, every pending attempt and every backoff
\* timer eventually settling.
FairSeq ==
  /\ SpecSeq
  /\ WF_vars((\E c \in SeqCalls :
                 TransportOk(c) \/ \E raw \in AxiosErrors : TransportFail(c, raw))
             /\ UNCHANGED layerVars)
  /\ WF_vars((\E c \in SeqCalls : Wake(c)) /\ UNCHANGED layerVars)

(***************************************************************************)
(* Properties of the breaker and the retry loop.                           *)
(***************************************************************************)
Is4xx(e) == e.status >= 400 /\ e.status < 500
Is5xx(e) == e.status >= 500 /\ e.status < 600

\* A failure without response that is no timeout, or a 5xx response.
NetworkOr5xx(e) ==
  \/ e.cls = "NetworkError"
  \/ e.cls = "ApiError" /\ Is5xx(e)
  \/ e.cls = "AxiosError" /\ (Is5xx(e) \/ (e.status = 0 /\ e.code # "ECONNABORTED"))

DefaultPolicy(k) == maxRetriesOf(k) = defaultMaxRetries

\* C4: with calls issued one after another, the breaker is Closed while fewer
\* than 5 operations have failed in a row, is not Closed from the 5th failure
\* on, and until resetTimeout has passed since the last failure it is Open and
\* every call is thrown out before it reaches the transport.
C4_ThresholdOpens ==
  /\ failStreak < maxFailures => cb.state = "closed"
  /\ failStreak >= maxFailures => cb.state # "closed"
  /\ (failStreak >= maxFailures /\ now - lastOpFail < resetTimeout) =>
       /\ cb.state = "open"
       /\ \A c \in Calls : phase[c] = "idle" /\ (outcome[c] = "rejected" => transports[c] = 0)

C4_Witness ==
  /\ failStreak = maxFailures
  /\ now - lastOpFail < resetTimeout
  /\ outcome[1] = "rejected"
  /\ transports[1] = 0
  /\ cb.state = "open"

\* C5: while the call that moved the breaker from Open to HalfOpen is in
\* flight, no other call is let through to the transport.
C5_SingleProbe ==
  \A c, d \in Calls :
    (c # d /\ adm[c] = "probe" /\ phase[c] # "idle" /\ phase[d] # "idle")
      => adm[d] # "halfopen"

\* C6: when the call admitted in HalfOpen fails the breaker is Open with
\* lastFailureTime the time of that failure; when it succeeds the breaker is
\* Closed with a failure count of 0.
C6_ProbeOutcome ==
  [][\A c \in Calls :
       (adm[c] = "probe" /\ phase[c] # "idle" /\ phase'[c] = "idle") =>
         IF outcome'[c] = "error"
           THEN cb'.state = "open" /\ cb'.lastFailureTime = now
           ELSE cb'.state = "closed" /\ cb'.failureCount = 0]_vars

\* C7: the breaker sees one outcome per operation: a failed attempt that is
\* retried and the reissue of an attempt leave the breaker alone, the success
\* of an operation sets the failure count to 0, and the failure of an operation
\* adds exactly 1 to it.
C7_OneOutcomePerOperation ==
  [][\A c \in Calls :
       /\ (phase[c] = "flight" /\ phase'[c] = "sleep") => cb' = cb
       /\ (phase[c] = "sleep" /\ phase'[c] = "flight") => cb' = cb
       /\ (phase[c] = "flight" /\ phase'[c] = "idle" /\ outcome'[c] = "ok") =>
            cb'.failureCount = 0
       /\ (phase[c] = "flight" /\ phase'[c] = "idle" /\ outcome'[c] = "error") =>
            cb'.failureCount = cb.failureCount + 1]_vars

C7_Witness ==
  \E c, d \in Calls :
    /\ outcome[c] = "ok" /\ transports[c] > 1
    /\ outcome[d] = "error" /\ transports[d] = defaultMaxRetries + 1
    /\ cb.failureCount = 1

\* C8: under the default policy an operation whose attempt failed with an
\* ApiError of status 4xx or with a TimeoutError has settled with that error
\* after a single transport invocation.
C8_NoRetryOf4xxOrTimeout ==
  \A c \in Calls :
    (/\ DefaultPolicy(kind[c])
     /\ \/ lastError[c].cls = "TimeoutError"
        \/ lastError[c].cls = "ApiError" /\ Is4xx(lastError[c]))
      => /\ phase[c] = "idle"
         /\ transports[c] = 1
         /\ raised[c] = lastError[c]

\* C9: one call of login (or register) invokes the transport at most once.
C9_AuthNotRetried ==
  \A c \in Calls : kind[c] = "login" => transports[c] <= 1

\* C10: under the default policy the transport is invoked at most 4 times for
\* one operation, the loop gives up on a NetworkError or 5xx only after the
\* 3rd retry, a succeeded attempt reaches the caller as a success with no
\* error, and every operation settles.
C10_RetryBounded ==
  \A c \in Calls :
    DefaultPolicy(kind[c]) =>
      /\ transports[c] <= defaultMaxRetries + 1
      /\ (outcome[c] = "error" /\ NetworkOr5xx(lastError[c])) =>
           transports[c] = defaultMaxRetries + 1
      /\ outcome[c] = "ok" => (phase[c] = "idle" /\ raised[c] = NoError)

C10_RetryRecovers ==
  /\ []C10_RetryBounded
  /\ \A c \in SeqCalls : (phase[c] # "idle") ~> (phase[c] = "idle")

C10_Witness ==
  \E c \in Calls :
    /\ DefaultPolicy(kind[c])
    /\ outcome[c] = "ok"
    /\ transports[c] = defaultMaxRetries + 1
    /\ NetworkOr5xx(lastError[c])

\* The read methods of the facade.
ReadKinds == {"getTodos", "getCurrentUser"}

\* The calls whose own makeRequest is under way for a read with the given key.
RequestsOf(key) ==
  {c \in Calls : phase[c] # "idle" /\ kind[c] \in ReadKinds /\ cacheKey(kind[c], query[c]) = key}

\* Call c is under way: its own request is, or it waits on a promise it was handed.
Busy(c) == phase[c] # "idle" \/ joined[c] # 0

\* C11: for overlapping calls of the same read with the same query one request
\* is started, so at no instant are two transport calls in flight for one key,
\* and a caller that was handed the pending promise settles with the value, or
\* the error, of the caller that started the request.
C11_OneRequestPerKey == \A key \in DKeys : Cardinality(RequestsOf(key)) <= 1

C11_Deduplicated ==
  /\ []C11_OneRequestPerKey
  /\ [][\A j, c \in Calls :
          (joined[j] = c /\ joined'[j] = 0) =>
            /\ jres'[j].res = outcome'[c]
            /\ jres'[j].res \in {"ok", "error"}
            /\ jres'[j].err = raised'[c]
            /\ jres'[j].val = val'[c]
            /\ transports'[j] = transports[j]]_vars

C11_Witness ==
  \E j, c \in Calls :
    /\ j # c
    /\ kind[j] = "getTodos" /\ kind[c] = "getTodos" /\ query[j] = query[c]
    /\ ~Busy(j) /\ ~Busy(c)
    /\ outcome[c] = "ok" /\ transports[c] > 1 /\ val[c] = MaxValues
    /\ jres[j] = [res |-> "ok", err |-> NoError, val |-> MaxValues]

C13_ErrorsClassified ==
  \A c \in Calls :
    raised[c] # NoError =>
      \/ raised[c] = CircuitOpenError
      \/ raised[c].cls = "ApiError" /\ raised[c].status # 0
      \/ raised[c].cls = "NetworkError" /\ raised[c].status = 0
      \/ raised[c].cls = "TimeoutError"

\* The step in which an attempt of call c is answered 401.
Got401(c) ==
  /\ phase[c] = "flight" /\ phase'[c] # "flight"
  /\ outcome'[c] # "ok"
  /\ lastError'[c].status = 401

\* The step in which call c hands a request to the transport.
Dispatched(c) == phase[c] # "flight" /\ phase'[c] = "flight"

C1_RollbackScoped ==
  [][\A m, o \in Muts : \A q \in QKeys :
       (/\ m # o
        /\ mphase[m] = "pending" /\ mphase'[m] = "done" /\ moutcome'[m] = "error"
        /\ mphase[o] = "pending"
        /\ o \in effects[q])
         => o \in effects'[q]]_vars

\* C2: once a mutation has failed and its error has reached the caller, no
\* entry carries that mutation's speculative update.
C2_NoSpeculativeLeftover ==
  \A m \in Muts : moutcome[m] = "error" => \A q \in QKeys : m \notin effects[q]

\* C3: no response of a read that was dispatched before a speculative update
\* is written into the cache after that update.
C3_NoStaleReadWrite == ~staleWritten

\* The step in which mutation m succeeds.
Succeeds(m) == mphase[m] = "pending" /\ mphase'[m] = "done" /\ moutcome'[m] = "ok"

\* The places of the records of a list that carry the given id.
PlacesOf(data, id) == {i \in DOMAIN data : data[i].id = id}

\* C16: after a create succeeds, every entry that was given the placeholder
\* holds the server's task exactly once, where the placeholder stood, and no
\* entry holds a record with the temporary id.
C16_CreateReconciled ==
  [][\A m \in Muts :
       (Succeeds(m) /\ mkind[m] = "create") =>
         /\ \A q \in QKeys :
              ctx[m].prev[q].has =>
                /\ cache'[q].has
                /\ Cardinality(PlacesOf(cache'[q].data, server'[1].id)) = 1
                /\ \E i \in PlacesOf(cache[q].data, ctx[m].tempId) :
                     cache'[q].data[i] = server'[1]
         /\ \A q \in QKeys : PlacesOf(cache'[q].data, ctx[m].tempId) = {}]_vars

\* The steps in which mutation m starts and in which it fails.
Starts(m) == mphase[m] = "new" /\ mphase'[m] = "pending"
Fails(m) == mphase[m] = "pending" /\ mphase'[m] = "done" /\ moutcome'[m] = "error"

C17_ReconcileIdempotent ==
  [][\A m \in Muts :
       (Succeeds(m) /\ mkind[m] = "create") =>
         \A q \in QKeys :
           (ctx[m].prev[q].has /\ cache'[q].has) =>
             ReconcileCreate(cache'[q].data, ctx[m].tempId, server'[1]) = cache'[q].data]_vars

C17_Witness ==
  /\ mkind[1] = "create" /\ moutcome[1] = "ok" /\ mphase[2] = "new"
  /\ before["all"].has
  /\ cache["all"].has /\ Len(cache["all"].data) = 2
  /\ cache["all"].data[1] = server[1]

\* C18: a toggle flips completed in every entry that holds the task and sets
\* completedAt to the current time when the task becomes completed and clears
\* it otherwise, so completedAt is set exactly when completed is; when the call
\* fails, completed and completedAt are what they were when the toggle started.
C18_ToggleCompletion ==
  [][\A m \in Muts :
       /\ (Starts(m) /\ mkind'[m] = "toggle") =>
            \A q \in QKeys : \A i \in DOMAIN cache[q].data :
              cache[q].data[i].id = marg'[m] =>
                /\ cache'[q].data[i].completed = ~cache[q].data[i].completed
                /\ cache'[q].data[i].completedAt =
                     (IF cache[q].data[i].completed THEN Undefined ELSE now)
                /\ (cache'[q].data[i].completedAt # Undefined) = cache'[q].data[i].completed
       /\ (Fails(m) /\ mkind[m] = "toggle") =>
            \A q \in QKeys : \A i \in DOMAIN before[q].data :
              before[q].data[i].id = marg[m] =>
                /\ i \in DOMAIN cache'[q].data
                /\ cache'[q].data[i].id = marg[m]
                /\ cache'[q].data[i].completed = before[q].data[i].completed
                /\ cache'[q].data[i].completedAt = before[q].data[i].completedAt]_vars

C18_Witness ==
  /\ mkind[1] = "toggle" /\ moutcome[1] = "ok"
  /\ mkind[2] = "toggle" /\ moutcome[2] = "error" /\ marg[2] = marg[1]
  /\ \E q \in QKeys : \E i \in DOMAIN before[q].data :
       /\ before[q].data[i].id = marg[2]
       /\ before[q].data[i].completed
       /\ cache[q].data[i] = before[q].data[i]

\* C19: when an update or a toggle succeeds, every entry that holds a record
\* with the task's id, snapshotted or not, holds the server's record in its
\* place, and every other record of every entry is unchanged.
C19_SuccessReplacesEverywhere ==
  [][\A m \in Muts :
       (Succeeds(m) /\ mkind[m] \in {"update", "toggle"}) =>
         \A q \in QKeys :
           /\ cache'[q].has = cache[q].has
           /\ DOMAIN cache'[q].data = DOMAIN cache[q].data
           /\ \A i \in DOMAIN cache[q].data :
                cache'[q].data[i] =
                  IF cache[q].data[i].id = marg[m]
                    THEN ServerRecord(marg[m])'
                    ELSE cache[q].data[i]]_vars

C19_Witness ==
  /\ mkind[2] \in {"update", "toggle"} /\ moutcome[2] = "ok"
  /\ late # {}
  /\ \A q \in late : \E i \in DOMAIN cache[q].data : cache[q].data[i] = ServerRecord(marg[2])

\* C20: an execution that has been cancelled (cancel, reset, or a newer
\* execute) writes neither data nor error into the state, invokes neither
\* onSuccess nor onError, and settles by returning undefined.
C20_CancelledIsSilent ==
  [][\A e \in Execs :
       (aborted[e] /\ ephase'[e] # ephase[e]) =>
         /\ state'.data = state.data
         /\ state'.error = state.error
         /\ callbacks'[e] = "none"
         /\ ephase'[e] = "done" => eresult'[e] = "undefined"]_vars

C20_Witness ==
  /\ aborted[1] /\ eresult[1] = "undefined" /\ eattempt[1] = retryAttempts
  /\ aborted[2] /\ eresult[2] = "undefined" /\ eattempt[2] = 0
  /\ eresult[3] = "value" /\ state.data = MaxValues /\ callbacks[3] = "onSuccess"

(***************************************************************************)
(* Properties of the retry loop's error and of the shared breaker.         *)
(***************************************************************************)
\* C21: when the retry loop gives up, the error the caller is thrown is the
\* error the last attempt rejected with, unchanged: not the error of an
\* earlier attempt and not an error built around it.
C21_LastErrorRaised ==
  \A c \in Calls :
    outcome[c] = "error" =>
      /\ Len(errors[c]) = transports[c]
      /\ raised[c] = errors[c][Len(errors[c])]

C21_Witness ==
  /\ outcome[1] = "error"
  /\ kind[1] = "getTodos"
  /\ Len(errors[1]) = defaultMaxRetries + 1
  /\ errors[1][1].cls = "NetworkError"
  /\ errors[1][defaultMaxRetries + 1].cls = "ApiError"
  /\ raised[1] = [cls |-> "ApiError", code |-> "", status |-> 400]

\* The key of the read call c makes.
KeyOf(c) == cacheKey(kind[c], query[c])

\* C22: the pending-request table holds a key exactly while the request that
\* was started for it is unsettled: success and failure both remove it in the
\* step that settles the request, so the table is empty when no read is under
\* way, and a read called while its key is absent is handed no promise: its
\* own request goes to the breaker and the transport.
C22_TableHoldsUnsettled ==
  /\ \A key \in DKeys :
       pendingRequests[key] # 0 =>
         /\ phase[pendingRequests[key]] # "idle"
         /\ kind[pendingRequests[key]] \in ReadKinds
         /\ KeyOf(pendingRequests[key]) = key
  /\ \A c \in Calls :
       (phase[c] # "idle" /\ kind[c] \in ReadKinds) => pendingRequests[KeyOf(c)] = c
  /\ (\A c \in Calls : ~Busy(c)) => \A key \in DKeys : pendingRequests[key] = 0

OtherReads(c) == {d \in Calls \ {c} : phase[d] # "idle" /\ kind[d] = "getTodos"}

\* C23: the key of getTodos is a function of the fields of the query: equal
\* queries have equal keys and queries with different filters have different
\* keys; so a getTodos called while another one with the same query is pending
\* is handed its promise, and one called while only getTodos with other
\* filters are pending dispatches its own request.
C23_KeyOfQuery ==
  /\ \A q1, q2 \in Queries :
       /\ q1 = q2 => cacheKey("getTodos", q1) = cacheKey("getTodos", q2)
       /\ q1.filter # q2.filter => cacheKey("getTodos", q1) # cacheKey("getTodos", q2)
  /\ \A c, d \in Calls :
       (c # d /\ phase[c] # "idle" /\ phase[d] # "idle"
         /\ kind[c] = "getTodos" /\ kind[d] = "getTodos") => query[c] # query[d]

Sent(c) == phase[c] # "flight" /\ phase'[c] = "flight"
Completed(c) == phase[c] = "flight" /\ phase'[c] # "flight"

\* The entry of the request of call c that is with the transport.
EntryOf(c) == [key |-> metadataKey[c], metadata |-> issued[c]]

\* C24: every request handed to the transport is given a request id greater
\* than every earlier one and an entry of its own in the metadata table; when
\* the transport answers, in whatever order, the duration is taken from that
\* request's start time and exactly its entry is removed, so the table is
\* empty when no request is with the transport.
C24_RequestIdentity ==
  /\ [](\A c \in Calls :
          phase[c] = "flight" =>
            /\ metadataKey[c] # NoKey
            /\ EntryOf(c) \in requestMetadata
            /\ \A d \in Calls \ {c} :
                 phase[d] = "flight" => issued[d].requestId # issued[c].requestId)
  /\ [][\A c \in Calls :
          /\ Sent(c) =>
               /\ issued'[c].requestId > requestCounter
               /\ issued'[c].startTime = now
          /\ Completed(c) =>
               /\ duration'[c] = now - issued[c].startTime
               /\ requestMetadata' = requestMetadata \ {EntryOf(c)}]_vars
  /\ []((\A c \in Calls : phase[c] # "flight") => requestMetadata = {})

(***************************************************************************)
(* Properties of the breaker under overlapping calls.                      *)
(***************************************************************************)
\* C25: the breaker's state changes only from Closed to Open, from Open to
\* HalfOpen, from HalfOpen to Closed and from HalfOpen to Open; while it is
\* Open and resetTimeout has not passed since the last failure, no outcome of
\* a call makes it Closed.
C25_BreakerTransitions ==
  [][/\ cb'.state # cb.state =>
          <<cb.state, cb'.state>> \in
            { <<"closed", "open">>, <<"open", "half-open">>,
              <<"half-open", "closed">>, <<"half-open", "open">> }
     /\ (cb.state = "open" /\ now - cb.lastFailureTime < resetTimeout) =>
          cb'.state # "closed"]_vars

\* C26: in every state, whatever the interleaving of overlapping calls, the
\* breaker is Closed exactly when its failure count is below the threshold;
\* Open and HalfOpen both come with a count at or above it.
C26_ClosedIffBelowThreshold ==
  /\ cb.state = "closed" <=> cb.failureCount < maxFailures
  /\ cb.state \in {"open", "half-open"} => cb.failureCount >= maxFailures

C26_Witness ==
  /\ cb.state = "open"
  /\ cb.failureCount = maxFailures + 1
  /\ \E c \in Calls : phase[c] = "flight" /\ adm[c] = "closed"

\* The step in which the gate throws out a call made as call c.
RejectedStep(c) ==
  /\ phase[c] = "idle"
  /\ outcome'[c] = "rejected"
  /\ outcome[c] # "rejected" \/ kind'[c] # kind[c]

\* C27: a call the Open breaker throws out changes neither the failure count
\* nor lastFailureTime, which stays the time of the last operation that
\* failed; a call is thrown out only while resetTimeout has not passed since
\* that failure, so the first call after it is let through to the transport
\* however many calls were thrown out in between.
C27_RejectionLeavesBreaker ==
  /\ [](cb.lastFailureTime = lastOpFail)
  /\ [][\A c \in Calls :
          RejectedStep(c) =>
            /\ cb' = cb
            /\ transports'[c] = 0
            /\ now - lastOpFail < resetTimeout]_vars
  /\ [][\A c \in Calls :
          (phase[c] = "idle" /\ cb.state = "open" /\ now - lastOpFail >= resetTimeout
            /\ <<kind[c], outcome[c], phase[c]>> # <<kind'[c], outcome'[c], phase'[c]>>) =>
            /\ phase'[c] = "flight"
            /\ transports'[c] = 1]_vars

C27_Witness ==
  /\ outcome[1] = "rejected" /\ transports[1] = 0
  /\ phase[2] = "flight" /\ adm[2] = "probe"
  /\ cb.lastFailureTime = 0
  /\ now = resetTimeout

(***************************************************************************)
(* Properties of overlapping creates and of the stored credential.         *)
(***************************************************************************)
\* C28: two creates that are pending together have different temporary ids,
\* also when both started in the same millisecond, and no entry ever holds
\* two records with the same id.
C28_DistinctTempIds ==
  /\ \A m, o \in Muts :
       (m # o /\ mphase[m] = "pending" /\ mphase[o] = "pending"
         /\ mkind[m] = "create" /\ mkind[o] = "create") =>
         ctx[m].tempId # ctx[o].tempId
  /\ \A q \in QKeys : \A i, j \in DOMAIN cache[q].data :
       i # j => cache[q].data[i].id # cache[q].data[j].id

\* C29: a 401 answer removes only the token its request carried: when a
\* sign-in has stored a newer token since the request was dispatched, a token
\* is still stored after the answer was handled.
C29_NewerTokenKept ==
  [][\A c \in Calls : (Got401(c) /\ renewed[c] /\ authToken) => authToken']_vars

\* The kinds of the operations that failed since the last success.
FailedKinds == {e[1] : e \in streak}

=============================================================================
